---- MODULE Spec2Model ----
(***************************************************************************)
(* pgmoneta worker pool (src/libpgmoneta/workers.c).                       *)
(*                                                                         *)
(* Threads: per pool one controlling thread (initialize / add / wait /     *)
(* destroy) and up to MaxWorkers worker threads running worker_do.  A       *)
(* critical section is entered in one step and left in another, so a state *)
(* shows which thread holds which mutex (semaphore_post and                *)
(* semaphore_post_all, three statements under the gate mutex, are one      *)
(* step); a pthread condition variable is the set of threads blocked on it *)
(* that no signal has released yet.                                        *)
(* worker_keepalive is the one process-wide flag of the source; all other  *)
(* state is per pool (a function of the pool id).                          *)
(* SpecWaiters adds a second thread that calls pgmoneta_workers_wait.       *)
(* pulled, invoked, drained, uaf, passes and released record what has      *)
(* happened and guard no action.                                            *)
(*                                                                         *)
(* Not modelled: malloc failure of the pool, the queue and a task (the     *)
(* failure of worker_init's malloc is), spurious condition wake-ups, and   *)
(* the payload builders.                                                   *)
(***************************************************************************)
EXTENDS Integers, Sequences, FiniteSets, TLC

\* Bounds of the model.
MaxWorkers == 2
MaxTasks == 3
\* Bounds of the specification of two pools.
TwoMaxWorkers == 1
TwoMaxTasks == 2

NULL == 0
NoOwner == 0

PoolIds == {1, 2}
WorkerIds == 1 .. MaxWorkers
TaskIds == 1 .. (MaxTasks + 1)
Ctl == MaxWorkers + 1
Aux == MaxWorkers + 2

VARIABLES
    worker_keepalive,   \* static volatile int worker_keepalive
    num,                \* argument of pgmoneta_workers_initialize
    cpc,                \* position of the controlling thread
    auxpc,              \* position of a second thread calling pgmoneta_workers_wait
    outp,               \* *workers of initialize: TRUE when it names the pool
    ret,                \* return value of initialize (-1: not returned)
    spawn_n,            \* loop index n of initialize
    worker_total,       \* local of destroy
    number_of_alive,
    number_of_working,
    number_of_tasks,    \* queue.number_of_tasks
    front,              \* queue.front
    rear,               \* queue.rear
    previous,           \* task->previous
    value,              \* queue.has_tasks->value
    cond_waiters,       \* threads blocked on has_tasks->cond
    passes,             \* semaphore_wait calls returned since the last post
    released,           \* workers inside semaphore_wait at the last post_all
                        \* that have not returned from it, no post since
    idle_waiters,       \* threads blocked on worker_all_idle
    worker_lock,        \* owner of workers->worker_lock
    rwmutex,            \* owner of queue.rwmutex
    sem_mutex,          \* owner of has_tasks->mutex
    wpc,                \* position of each worker thread
    wt,                 \* local t of worker_do
    invoked,            \* how often each task's function was called
    pulled,             \* tasks returned by queue_pull, in rwmutex order
    nadded,             \* tasks pushed so far (the next task is nadded + 1)
    drained,            \* pgmoneta_workers_wait returned, no add since
    freed,              \* destroy released the queue, the workers, the pool
    uaf                 \* a worker touched the pool after it was released

ctlVars == <<num, cpc, auxpc, outp, ret, spawn_n, worker_total, nadded, drained, freed>>
cntVars == <<number_of_alive, number_of_working>>
queueVars == <<number_of_tasks, front, rear, previous, pulled>>
semVars == <<value, cond_waiters, passes, released>>
mutexVars == <<worker_lock, rwmutex, sem_mutex>>
workerVars == <<wpc, wt, invoked, uaf>>
vars == <<worker_keepalive, ctlVars, cntVars, queueVars, semVars, idle_waiters,
          mutexVars, workerVars>>

Set(f, p, v) == [f EXCEPT ![p] = v]
Set2(f, p, i, v) == [f EXCEPT ![p][i] = v]

----
\* Condition variables.

\* pthread_cond_signal: one of the blocked threads is released, if there is one.
CondSignal(waiters) ==
    IF waiters = {} THEN {{}} ELSE {waiters \ {x} : x \in waiters}

\* Faulty variant of CondBroadcast: nobody is released.
CondBroadcast_None(waiters) == waiters

\* pthread_cond_broadcast: every blocked thread is released.
CondBroadcast(waiters) == {}

----
\* Binary semaphore (the gate).

\* workers inside pthread_cond_wait of semaphore_wait, blocked or woken
InSemaphoreWait(p) == {i \in WorkerIds : wpc[p][i] = "sem_cond"}

\* semaphore_post: value = 1 and one waiter signalled.
semaphore_post(p) ==
    /\ sem_mutex[p] = NoOwner
    /\ value' = Set(value, p, 1)
    /\ \E S \in CondSignal(cond_waiters[p]) : cond_waiters' = Set(cond_waiters, p, S)
    /\ passes' = Set(passes, p, 0)
    /\ released' = Set(released, p, {})

\* Faulty variant of semaphore_post_all: the value is not set.
semaphore_broadcast_only(p) ==
    /\ sem_mutex[p] = NoOwner
    /\ value' = value
    /\ cond_waiters' = Set(cond_waiters, p, CondBroadcast(cond_waiters[p]))
    /\ passes' = Set(passes, p, 0)
    /\ released' = Set(released, p, InSemaphoreWait(p))

\* semaphore_post_all: value = 1 and every waiter released.
semaphore_post_all(p) ==
    /\ sem_mutex[p] = NoOwner
    /\ value' = Set(value, p, 1)
    /\ cond_waiters' = Set(cond_waiters, p, CondBroadcast(cond_waiters[p]))
    /\ passes' = Set(passes, p, 0)
    /\ released' = Set(released, p, InSemaphoreWait(p))

----
\* Task queue.

\* Faulty variant of RearmOnPull: queue_pull never posts.
RearmNever(count) == FALSE

\* Faulty variant of RearmOnPull: the gate is posted again only when at least
\* two tasks remain.
RearmOnPull_OnlyMany(count) == count >= 3

\* queue_pull re-arms the gate when tasks remain after the removal
\* (the default branch of its switch).
RearmOnPull(count) == count >= 2

\* Faulty variant of queue_push_link: the task is linked in at the front.
queue_push_front(p, task) ==
    /\ previous' = Set2(previous, p, task, front[p])
    /\ front' = Set(front, p, task)
    /\ rear' = IF number_of_tasks[p] = 0 THEN Set(rear, p, task) ELSE rear
    /\ number_of_tasks' = Set(number_of_tasks, p, number_of_tasks[p] + 1)

\* queue_push, the part under rwmutex before semaphore_post.
queue_push_link(p, task) ==
    /\ previous' = IF number_of_tasks[p] = 0
                   THEN Set2(previous, p, task, NULL)
                   ELSE [previous EXCEPT ![p][task] = NULL, ![p][rear[p]] = task]
    /\ front' = IF number_of_tasks[p] = 0 THEN Set(front, p, task) ELSE front
    /\ rear' = Set(rear, p, task)
    /\ number_of_tasks' = Set(number_of_tasks, p, number_of_tasks[p] + 1)

\* Faulty variant of queue_pull_unlink: removing the last task leaves rear.
queue_pull_keep_rear(p) ==
    /\ front' = IF number_of_tasks[p] = 0 THEN front
                ELSE IF number_of_tasks[p] = 1 THEN Set(front, p, NULL)
                ELSE Set(front, p, previous[p][front[p]])
    /\ rear' = rear
    /\ number_of_tasks' = IF number_of_tasks[p] = 0 THEN number_of_tasks
                          ELSE Set(number_of_tasks, p, number_of_tasks[p] - 1)
    /\ pulled' = IF front[p] = NULL THEN pulled
                 ELSE Set(pulled, p, Append(pulled[p], front[p]))

\* queue_pull, the part under rwmutex before semaphore_post; the task
\* returned is queue->front as read on entry.
queue_pull_unlink(p) ==
    /\ front' = IF number_of_tasks[p] = 0 THEN front
                ELSE IF number_of_tasks[p] = 1 THEN Set(front, p, NULL)
                ELSE Set(front, p, previous[p][front[p]])
    /\ rear' = IF number_of_tasks[p] = 1 THEN Set(rear, p, NULL) ELSE rear
    /\ number_of_tasks' = IF number_of_tasks[p] = 0 THEN number_of_tasks
                          ELSE Set(number_of_tasks, p, number_of_tasks[p] - 1)
    /\ pulled' = IF front[p] = NULL THEN pulled
                 ELSE Set(pulled, p, Append(pulled[p], front[p]))

----
\* worker_do, one action per step of worker i of pool p.

\* lines 316-317: lock worker_lock, number_of_alive += 1
WorkerStart(p, i) ==
    /\ wpc[p][i] = "start"
    /\ worker_lock[p] = NoOwner
    /\ worker_lock' = Set(worker_lock, p, i)
    /\ number_of_alive' = Set(number_of_alive, p, number_of_alive[p] + 1)
    /\ wpc' = Set2(wpc, p, i, "alive_unlock")
    /\ UNCHANGED <<worker_keepalive, ctlVars, number_of_working, queueVars, semVars,
                   idle_waiters, rwmutex, sem_mutex, wt, invoked, uaf>>

\* line 318
AliveUnlock(p, i) ==
    /\ wpc[p][i] = "alive_unlock"
    /\ worker_lock' = Set(worker_lock, p, NoOwner)
    /\ wpc' = Set2(wpc, p, i, "loop")
    /\ UNCHANGED <<worker_keepalive, ctlVars, cntVars, queueVars, semVars,
                   idle_waiters, rwmutex, sem_mutex, wt, invoked, uaf>>

\* line 320: while (worker_keepalive)
LoopTest(p, i) ==
    /\ wpc[p][i] = "loop"
    /\ wpc' = Set2(wpc, p, i, IF worker_keepalive # 0 THEN "sem_wait" ELSE "exit_dec")
    /\ UNCHANGED <<worker_keepalive, ctlVars, cntVars, queueVars, semVars,
                   idle_waiters, mutexVars, wt, invoked, uaf>>

\* Faulty variant of SemTake: a counting gate, the value is left at 1.
SemTake_KeepValue(p, i) ==
    /\ sem_mutex[p] = NoOwner
    /\ IF value[p] = 1
       THEN /\ sem_mutex' = Set(sem_mutex, p, i)
            /\ passes' = Set(passes, p, passes[p] + 1)
            /\ released' = Set(released, p, released[p] \ {i})
            /\ wpc' = Set2(wpc, p, i, "sem_unlock")
            /\ UNCHANGED <<value, cond_waiters>>
       ELSE /\ cond_waiters' = Set(cond_waiters, p, cond_waiters[p] \cup {i})
            /\ wpc' = Set2(wpc, p, i, "sem_cond")
            /\ UNCHANGED <<value, sem_mutex, passes, released>>
    /\ UNCHANGED <<worker_keepalive, ctlVars, cntVars, queueVars,
                   idle_waiters, worker_lock, rwmutex, wt, invoked, uaf>>

\* semaphore_wait under the mutex: take the value, or block on the condition.
SemTake(p, i) ==
    /\ sem_mutex[p] = NoOwner
    /\ IF value[p] = 1
       THEN /\ value' = Set(value, p, 0)
            /\ sem_mutex' = Set(sem_mutex, p, i)
            /\ cond_waiters' = cond_waiters
            /\ passes' = Set(passes, p, passes[p] + 1)
            /\ released' = Set(released, p, released[p] \ {i})
            /\ wpc' = Set2(wpc, p, i, "sem_unlock")
       ELSE /\ value' = value
            /\ sem_mutex' = sem_mutex
            /\ cond_waiters' = Set(cond_waiters, p, cond_waiters[p] \cup {i})
            /\ UNCHANGED <<passes, released>>
            /\ wpc' = Set2(wpc, p, i, "sem_cond")
    /\ UNCHANGED <<worker_keepalive, ctlVars, cntVars, queueVars,
                   idle_waiters, worker_lock, rwmutex, wt, invoked, uaf>>

\* line 322 -> 513-514: first test of the value
SemWait(p, i) ==
    /\ wpc[p][i] = "sem_wait"
    /\ SemTake(p, i)

\* line 516: released from pthread_cond_wait, the mutex re-acquired, test again
SemWake(p, i) ==
    /\ wpc[p][i] = "sem_cond"
    /\ i \notin cond_waiters[p]
    /\ SemTake(p, i)

\* line 519
SemUnlock(p, i) ==
    /\ wpc[p][i] = "sem_unlock"
    /\ sem_mutex' = Set(sem_mutex, p, NoOwner)
    /\ wpc' = Set2(wpc, p, i, "recheck")
    /\ UNCHANGED <<worker_keepalive, ctlVars, cntVars, queueVars, semVars,
                   idle_waiters, worker_lock, rwmutex, wt, invoked, uaf>>

\* Faulty variant of Recheck: the flag is not tested after the gate.
Recheck_NoTest(p, i) ==
    /\ wpc[p][i] = "recheck"
    /\ wpc' = Set2(wpc, p, i, "work_inc")
    /\ UNCHANGED <<worker_keepalive, ctlVars, cntVars, queueVars, semVars,
                   idle_waiters, mutexVars, wt, invoked, uaf>>

\* line 324: if (worker_keepalive)
Recheck(p, i) ==
    /\ wpc[p][i] = "recheck"
    /\ wpc' = Set2(wpc, p, i, IF worker_keepalive # 0 THEN "work_inc" ELSE "loop")
    /\ UNCHANGED <<worker_keepalive, ctlVars, cntVars, queueVars, semVars,
                   idle_waiters, mutexVars, wt, invoked, uaf>>

\* lines 326-327
WorkInc(p, i) ==
    /\ wpc[p][i] = "work_inc"
    /\ worker_lock[p] = NoOwner
    /\ worker_lock' = Set(worker_lock, p, i)
    /\ number_of_working' = Set(number_of_working, p, number_of_working[p] + 1)
    /\ wpc' = Set2(wpc, p, i, "work_inc_unlock")
    /\ UNCHANGED <<worker_keepalive, ctlVars, number_of_alive, queueVars, semVars,
                   idle_waiters, rwmutex, sem_mutex, wt, invoked, uaf>>

\* Faulty variant of WorkIncUnlock: worker_lock is kept over queue_pull.
WorkIncUnlock_Hold(p, i) ==
    /\ wpc[p][i] = "work_inc_unlock"
    /\ wpc' = Set2(wpc, p, i, "pull")
    /\ UNCHANGED <<worker_keepalive, ctlVars, cntVars, queueVars, semVars,
                   idle_waiters, mutexVars, wt, invoked, uaf>>

\* line 328
WorkIncUnlock(p, i) ==
    /\ wpc[p][i] = "work_inc_unlock"
    /\ worker_lock' = Set(worker_lock, p, NoOwner)
    /\ wpc' = Set2(wpc, p, i, "pull")
    /\ UNCHANGED <<worker_keepalive, ctlVars, cntVars, queueVars, semVars,
                   idle_waiters, rwmutex, sem_mutex, wt, invoked, uaf>>

\* line 330 -> 433-449: queue_pull up to its semaphore_post
QueuePull(p, i) ==
    /\ wpc[p][i] = "pull"
    /\ rwmutex[p] = NoOwner
    /\ rwmutex' = Set(rwmutex, p, i)
    /\ wt' = Set2(wt, p, i, front[p])
    /\ queue_pull_unlink(p)
    /\ previous' = previous
    /\ wpc' = Set2(wpc, p, i, IF RearmOnPull(number_of_tasks[p])
                              THEN "pull_post" ELSE "pull_unlock")
    /\ UNCHANGED <<worker_keepalive, ctlVars, cntVars, semVars,
                   idle_waiters, worker_lock, sem_mutex, invoked, uaf>>

\* line 450
PullPost(p, i) ==
    /\ wpc[p][i] = "pull_post"
    /\ semaphore_post(p)
    /\ wpc' = Set2(wpc, p, i, "pull_unlock")
    /\ UNCHANGED <<worker_keepalive, ctlVars, cntVars, queueVars,
                   idle_waiters, mutexVars, wt, invoked, uaf>>

\* Faulty variant of PullUnlock: number_of_working is only decremented
\* after a task was run.
PullUnlock_DecInsideIf(p, i) ==
    /\ wpc[p][i] = "pull_unlock"
    /\ rwmutex' = Set(rwmutex, p, NoOwner)
    /\ wpc' = Set2(wpc, p, i, IF wt[p][i] # NULL THEN "call" ELSE "loop")
    /\ UNCHANGED <<worker_keepalive, ctlVars, cntVars, queueVars, semVars,
                   idle_waiters, worker_lock, sem_mutex, wt, invoked, uaf>>

\* Faulty variant of PullUnlock: the task is run under rwmutex.
PullUnlock_KeepLock(p, i) ==
    /\ wpc[p][i] = "pull_unlock"
    /\ rwmutex' = IF wt[p][i] # NULL THEN rwmutex ELSE Set(rwmutex, p, NoOwner)
    /\ wpc' = Set2(wpc, p, i, IF wt[p][i] # NULL THEN "call" ELSE "work_dec")
    /\ UNCHANGED <<worker_keepalive, ctlVars, cntVars, queueVars, semVars,
                   idle_waiters, worker_lock, sem_mutex, wt, invoked, uaf>>

\* lines 453-454 and 331: unlock, return the task, if (t)
PullUnlock(p, i) ==
    /\ wpc[p][i] = "pull_unlock"
    /\ rwmutex' = Set(rwmutex, p, NoOwner)
    /\ wpc' = Set2(wpc, p, i, IF wt[p][i] # NULL THEN "call" ELSE "work_dec")
    /\ UNCHANGED <<worker_keepalive, ctlVars, cntVars, queueVars, semVars,
                   idle_waiters, worker_lock, sem_mutex, wt, invoked, uaf>>

\* lines 333-334: the task's function is called
Call(p, i) ==
    /\ wpc[p][i] = "call"
    /\ invoked' = Set2(invoked, p, wt[p][i], invoked[p][wt[p][i]] + 1)
    /\ wpc' = Set2(wpc, p, i, "running")
    /\ UNCHANGED <<worker_keepalive, ctlVars, cntVars, queueVars, semVars,
                   idle_waiters, mutexVars, wt, uaf>>

\* lines 334-336: the function returns, free(t)
Return(p, i) ==
    /\ wpc[p][i] = "running"
    /\ previous' = Set2(previous, p, wt[p][i], NULL)
    /\ wt' = Set2(wt, p, i, NULL)
    /\ wpc' = Set2(wpc, p, i, "work_dec")
    /\ UNCHANGED <<worker_keepalive, ctlVars, cntVars, number_of_tasks, front, rear,
                   pulled, semVars, idle_waiters, mutexVars, invoked, uaf>>

\* Faulty variant of SignalIdle: signalled after every task.
SignalIdle_Always(working) == TRUE

\* line 341: the idle condition is signalled when no worker is working
SignalIdle(working) == working = 0

\* lines 339-344
WorkDec(p, i) ==
    /\ wpc[p][i] = "work_dec"
    /\ worker_lock[p] = NoOwner
    /\ worker_lock' = Set(worker_lock, p, i)
    /\ number_of_working' = Set(number_of_working, p, number_of_working[p] - 1)
    /\ IF SignalIdle(number_of_working[p] - 1)
       THEN /\ \E S \in CondSignal(idle_waiters[p]) :
                    idle_waiters' = Set(idle_waiters, p, S)
            /\ wpc' = Set2(wpc, p, i, "signalled_unlock")
       ELSE /\ idle_waiters' = idle_waiters
            /\ wpc' = Set2(wpc, p, i, "work_dec_unlock")
    /\ UNCHANGED <<worker_keepalive, ctlVars, number_of_alive, queueVars, semVars,
                   rwmutex, sem_mutex, wt, invoked, uaf>>

\* line 345
WorkDecUnlock(p, i) ==
    /\ wpc[p][i] \in {"work_dec_unlock", "signalled_unlock"}
    /\ worker_lock' = Set(worker_lock, p, NoOwner)
    /\ wpc' = Set2(wpc, p, i, "loop")
    /\ UNCHANGED <<worker_keepalive, ctlVars, cntVars, queueVars, semVars,
                   idle_waiters, rwmutex, sem_mutex, wt, invoked, uaf>>

\* lines 349-350
ExitDec(p, i) ==
    /\ wpc[p][i] = "exit_dec"
    /\ worker_lock[p] = NoOwner
    /\ worker_lock' = Set(worker_lock, p, i)
    /\ number_of_alive' = Set(number_of_alive, p, number_of_alive[p] - 1)
    /\ wpc' = Set2(wpc, p, i, "exit_unlock")
    /\ UNCHANGED <<worker_keepalive, ctlVars, number_of_working, queueVars, semVars,
                   idle_waiters, rwmutex, sem_mutex, wt, invoked, uaf>>

\* lines 351-353: the unlock touches the pool; the thread ends
ExitUnlock(p, i) ==
    /\ wpc[p][i] = "exit_unlock"
    /\ worker_lock' = Set(worker_lock, p, NoOwner)
    /\ uaf' = Set(uaf, p, uaf[p] \/ freed[p])
    /\ wpc' = Set2(wpc, p, i, "done")
    /\ UNCHANGED <<worker_keepalive, ctlVars, cntVars, queueVars, semVars,
                   idle_waiters, rwmutex, sem_mutex, wt, invoked>>

worker_do(p, i) ==
    \/ WorkerStart(p, i)
    \/ AliveUnlock(p, i)
    \/ LoopTest(p, i)
    \/ SemWait(p, i)
    \/ SemWake(p, i)
    \/ SemUnlock(p, i)
    \/ Recheck(p, i)
    \/ WorkInc(p, i)
    \/ WorkIncUnlock(p, i)
    \/ QueuePull(p, i)
    \/ PullPost(p, i)
    \/ PullUnlock(p, i)
    \/ Call(p, i)
    \/ Return(p, i)
    \/ WorkDec(p, i)
    \/ WorkDecUnlock(p, i)
    \/ ExitDec(p, i)
    \/ ExitUnlock(p, i)

----
\* pgmoneta_workers_initialize, by the controlling thread of pool p.

\* lines 64-66: *workers = NULL; worker_keepalive = 1
InitBegin(p) ==
    /\ cpc[p] = "idle"
    /\ outp' = Set(outp, p, FALSE)
    /\ worker_keepalive' = 1
    /\ cpc' = Set(cpc, p, "init_check")
    /\ UNCHANGED <<num, auxpc, ret, spawn_n, worker_total, nadded, drained, freed, cntVars,
                   queueVars, semVars, idle_waiters, mutexVars, workerVars>>

\* Faulty variant of InvalidSize: 0 is accepted.
InvalidSize_Negative(size) == size < 0

\* line 68: the size is refused
InvalidSize(size) == size < 1

\* lines 68-71 and 114-122: num < 1, return 1
InitReject(p) ==
    /\ cpc[p] = "init_check"
    /\ InvalidSize(num[p])
    /\ ret' = Set(ret, p, 1)
    /\ cpc' = Set(cpc, p, "failed")
    /\ UNCHANGED <<worker_keepalive, num, auxpc, outp, spawn_n, worker_total, nadded, drained,
                   freed, cntVars, queueVars, semVars, idle_waiters, mutexVars,
                   workerVars>>

\* lines 73-98: the pool, its counters, queue_init, semaphore_init(0), the mutexes
InitAlloc(p) ==
    /\ cpc[p] = "init_check"
    /\ ~InvalidSize(num[p])
    /\ number_of_alive' = Set(number_of_alive, p, 0)
    /\ number_of_working' = Set(number_of_working, p, 0)
    /\ number_of_tasks' = Set(number_of_tasks, p, 0)
    /\ front' = Set(front, p, NULL)
    /\ rear' = Set(rear, p, NULL)
    /\ value' = Set(value, p, 0)
    /\ spawn_n' = Set(spawn_n, p, 0)
    /\ cpc' = Set(cpc, p, "init_spawn")
    /\ UNCHANGED <<worker_keepalive, num, auxpc, outp, ret, worker_total, nadded, drained,
                   freed, previous, pulled, cond_waiters, passes, released,
                   idle_waiters, mutexVars, workerVars>>

\* lines 100-103 -> worker_init: the thread is created, or malloc failed and
\* the (ignored) result is 1
InitSpawn(p) ==
    /\ cpc[p] = "init_spawn"
    /\ spawn_n[p] < num[p]
    /\ \E created \in BOOLEAN :
          wpc' = IF created THEN Set2(wpc, p, spawn_n[p] + 1, "start") ELSE wpc
    /\ spawn_n' = Set(spawn_n, p, spawn_n[p] + 1)
    /\ UNCHANGED <<worker_keepalive, num, auxpc, cpc, outp, ret, worker_total, nadded, drained,
                   freed, cntVars, queueVars, semVars, idle_waiters, mutexVars,
                   wt, invoked, uaf>>

\* line 105: the polling loop ends
AllAlive(alive, size) == alive = size

\* lines 100 and 105-108: the spawn loop is over and number_of_alive == num is read
InitPoll(p) ==
    /\ cpc[p] = "init_spawn"
    /\ spawn_n[p] >= num[p]
    /\ AllAlive(number_of_alive[p], num[p])
    /\ cpc' = Set(cpc, p, "init_ret")
    /\ UNCHANGED <<worker_keepalive, num, auxpc, outp, ret, spawn_n, worker_total, nadded,
                   drained, freed, cntVars, queueVars, semVars, idle_waiters,
                   mutexVars, workerVars>>

\* lines 110-112: *workers = w; return 0
InitReturn(p) ==
    /\ cpc[p] = "init_ret"
    /\ outp' = Set(outp, p, TRUE)
    /\ ret' = Set(ret, p, 0)
    /\ cpc' = Set(cpc, p, "ready")
    /\ UNCHANGED <<worker_keepalive, num, auxpc, spawn_n, worker_total, nadded, drained,
                   freed, cntVars, queueVars, semVars, idle_waiters, mutexVars,
                   workerVars>>

pgmoneta_workers_initialize(p) ==
    \/ InitBegin(p)
    \/ InitReject(p)
    \/ InitAlloc(p)
    \/ InitSpawn(p)
    \/ InitPoll(p)
    \/ InitReturn(p)

----
\* pgmoneta_workers_add: at most `limit` tasks are submitted to pool p.

\* lines 130-140: the call, the task is allocated
Add(p, limit) ==
    /\ cpc[p] = "ready"
    /\ nadded[p] < limit
    /\ drained' = Set(drained, p, FALSE)
    /\ cpc' = Set(cpc, p, "push")
    /\ UNCHANGED <<worker_keepalive, num, auxpc, outp, ret, spawn_n, worker_total, nadded,
                   freed, cntVars, queueVars, semVars, idle_waiters, mutexVars,
                   workerVars>>

\* line 142 -> 407-422: queue_push up to its semaphore_post
QueuePush(p) ==
    /\ cpc[p] = "push"
    /\ rwmutex[p] = NoOwner
    /\ rwmutex' = Set(rwmutex, p, Ctl)
    /\ queue_push_link(p, nadded[p] + 1)
    /\ nadded' = Set(nadded, p, nadded[p] + 1)
    /\ cpc' = Set(cpc, p, "push_post")
    /\ UNCHANGED <<worker_keepalive, num, auxpc, outp, ret, spawn_n, worker_total, drained,
                   freed, cntVars, pulled, semVars, idle_waiters, worker_lock,
                   sem_mutex, workerVars>>

\* line 424
PushPost(p) ==
    /\ cpc[p] = "push_post"
    /\ semaphore_post(p)
    /\ cpc' = Set(cpc, p, "push_unlock")
    /\ UNCHANGED <<worker_keepalive, num, auxpc, outp, ret, spawn_n, worker_total, nadded,
                   drained, freed, cntVars, queueVars, idle_waiters, mutexVars,
                   workerVars>>

\* lines 425 and 144
PushUnlock(p) ==
    /\ cpc[p] = "push_unlock"
    /\ rwmutex' = Set(rwmutex, p, NoOwner)
    /\ cpc' = Set(cpc, p, "ready")
    /\ UNCHANGED <<worker_keepalive, num, auxpc, outp, ret, spawn_n, worker_total, nadded,
                   drained, freed, cntVars, queueVars, semVars, idle_waiters,
                   worker_lock, sem_mutex, workerVars>>

pgmoneta_workers_add(p, limit) ==
    \/ Add(p, limit)
    \/ QueuePush(p)
    \/ PushPost(p)
    \/ PushUnlock(p)

----
\* pgmoneta_workers_wait.

\* Faulty variants of WaitCondition: one of the two counters is not tested.
WaitCondition_QueueOnly(tasks, working) == tasks # 0

WaitCondition_WorkingOnly(tasks, working) == working # 0

\* line 159: the condition on which the caller keeps waiting
WaitCondition(tasks, working) == tasks # 0 \/ working # 0

\* lines 159-164 under worker_lock: block on worker_all_idle, or leave the loop
WaitTest(p) ==
    /\ worker_lock[p] = NoOwner
    /\ IF WaitCondition(number_of_tasks[p], number_of_working[p])
       THEN /\ idle_waiters' = Set(idle_waiters, p, idle_waiters[p] \cup {Ctl})
            /\ worker_lock' = worker_lock
            /\ cpc' = Set(cpc, p, "wait_cond")
       ELSE /\ idle_waiters' = idle_waiters
            /\ worker_lock' = Set(worker_lock, p, Ctl)
            /\ cpc' = Set(cpc, p, "wait_unlock")
    /\ UNCHANGED <<worker_keepalive, num, auxpc, outp, ret, spawn_n, worker_total, nadded,
                   drained, freed, cntVars, queueVars, semVars, rwmutex, sem_mutex,
                   workerVars>>

\* lines 155-159: the call, the lock, the first test
Wait(p) ==
    /\ cpc[p] = "ready"
    /\ WaitTest(p)

\* line 161: released from pthread_cond_wait, the lock re-acquired, test again
WaitWake(p) ==
    /\ cpc[p] = "wait_cond"
    /\ Ctl \notin idle_waiters[p]
    /\ WaitTest(p)

\* lines 164-166: unlock and return
WaitUnlock(p) ==
    /\ cpc[p] = "wait_unlock"
    /\ worker_lock' = Set(worker_lock, p, NoOwner)
    /\ drained' = Set(drained, p, TRUE)
    /\ cpc' = Set(cpc, p, "ready")
    /\ UNCHANGED <<worker_keepalive, num, auxpc, outp, ret, spawn_n, worker_total, nadded,
                   freed, cntVars, queueVars, semVars, idle_waiters, rwmutex,
                   sem_mutex, workerVars>>

pgmoneta_workers_wait(p) ==
    \/ Wait(p)
    \/ WaitWake(p)
    \/ WaitUnlock(p)

----
\* pgmoneta_workers_destroy.

\* lines 177-180: worker_total = number_of_alive; worker_keepalive = 0.
\* The pool is destroyed while no other thread is inside a call on it.
DestroyBegin(p) ==
    /\ cpc[p] = "ready"
    /\ auxpc[p] \in {"idle", "returned"}
    /\ worker_total' = Set(worker_total, p, number_of_alive[p])
    /\ worker_keepalive' = 0
    /\ cpc' = Set(cpc, p, "destroy_loop")
    /\ UNCHANGED <<num, auxpc, outp, ret, spawn_n, nadded, drained, freed, cntVars,
                   queueVars, semVars, idle_waiters, mutexVars, workerVars>>

\* Faulty variant of WorkersRemain: destroy gives up after the grace period.
WorkersRemain_GraceOnly(alive) == FALSE

\* lines 183 and 190: destroy keeps posting while this holds
WorkersRemain(alive) == alive # 0

\* lines 183-194: both loops post to every waiter while workers are alive
DestroyPost(p) ==
    /\ cpc[p] = "destroy_loop"
    /\ WorkersRemain(number_of_alive[p])
    /\ semaphore_post_all(p)
    /\ UNCHANGED <<worker_keepalive, ctlVars, cntVars, queueVars, idle_waiters,
                   mutexVars, workerVars>>

\* line 190: number_of_alive is read as 0
DestroyLoopExit(p) ==
    /\ cpc[p] = "destroy_loop"
    /\ ~WorkersRemain(number_of_alive[p])
    /\ cpc' = Set(cpc, p, "destroy_free")
    /\ UNCHANGED <<worker_keepalive, num, auxpc, outp, ret, spawn_n, worker_total, nadded,
                   drained, freed, cntVars, queueVars, semVars, idle_waiters,
                   mutexVars, workerVars>>

\* lines 196-204: queue_destroy (queue_clear frees the queued tasks and
\* semaphore_reset re-initialises the gate), worker_destroy, free
DestroyFree(p) ==
    /\ cpc[p] = "destroy_free"
    /\ number_of_tasks' = Set(number_of_tasks, p, 0)
    /\ front' = Set(front, p, NULL)
    /\ rear' = Set(rear, p, NULL)
    /\ previous' = Set(previous, p, [t \in TaskIds |-> NULL])
    /\ value' = Set(value, p, 0)
    /\ cond_waiters' = Set(cond_waiters, p, {})
    /\ passes' = Set(passes, p, 0)
    /\ released' = Set(released, p, {})
    /\ sem_mutex' = Set(sem_mutex, p, NoOwner)
    /\ freed' = Set(freed, p, TRUE)
    /\ cpc' = Set(cpc, p, "destroyed")
    /\ UNCHANGED <<worker_keepalive, num, auxpc, outp, ret, spawn_n, worker_total, nadded,
                   drained, cntVars, pulled, idle_waiters, worker_lock, rwmutex,
                   workerVars>>

pgmoneta_workers_destroy(p) ==
    \/ DestroyBegin(p)
    \/ DestroyPost(p)
    \/ DestroyLoopExit(p)
    \/ DestroyFree(p)

----
\* Specifications.

InitCommon ==
    /\ worker_keepalive = 0
    /\ auxpc = [p \in PoolIds |-> "idle"]
    /\ outp = [p \in PoolIds |-> FALSE]
    /\ ret = [p \in PoolIds |-> -1]
    /\ spawn_n = [p \in PoolIds |-> 0]
    /\ worker_total = [p \in PoolIds |-> 0]
    /\ number_of_alive = [p \in PoolIds |-> 0]
    /\ number_of_working = [p \in PoolIds |-> 0]
    /\ number_of_tasks = [p \in PoolIds |-> 0]
    /\ front = [p \in PoolIds |-> NULL]
    /\ rear = [p \in PoolIds |-> NULL]
    /\ previous = [p \in PoolIds |-> [t \in TaskIds |-> NULL]]
    /\ value = [p \in PoolIds |-> 0]
    /\ cond_waiters = [p \in PoolIds |-> {}]
    /\ passes = [p \in PoolIds |-> 0]
    /\ released = [p \in PoolIds |-> {}]
    /\ idle_waiters = [p \in PoolIds |-> {}]
    /\ worker_lock = [p \in PoolIds |-> NoOwner]
    /\ rwmutex = [p \in PoolIds |-> NoOwner]
    /\ sem_mutex = [p \in PoolIds |-> NoOwner]
    /\ wpc = [p \in PoolIds |-> [i \in WorkerIds |-> "none"]]
    /\ wt = [p \in PoolIds |-> [i \in WorkerIds |-> NULL]]
    /\ invoked = [p \in PoolIds |-> [t \in TaskIds |-> 0]]
    /\ pulled = [p \in PoolIds |-> <<>>]
    /\ nadded = [p \in PoolIds |-> 0]
    /\ drained = [p \in PoolIds |-> FALSE]
    /\ freed = [p \in PoolIds |-> FALSE]
    /\ uaf = [p \in PoolIds |-> FALSE]

\* One pool: pool 1 of any size from -1 to MaxWorkers; pool 2 is never created.
Init ==
    /\ InitCommon
    /\ num \in [PoolIds -> -1 .. MaxWorkers]
    /\ num[2] = 0
    /\ cpc = [p \in PoolIds |-> IF p = 1 THEN "idle" ELSE "absent"]

Next ==
    \/ \E i \in WorkerIds : worker_do(1, i)
    \/ pgmoneta_workers_initialize(1)
    \/ pgmoneta_workers_add(1, MaxTasks)
    \/ pgmoneta_workers_wait(1)
    \/ pgmoneta_workers_destroy(1)

Spec == Init /\ [][Next]_vars

\* Two pools in one process, each with its own controlling thread, of size 0
\* to TwoMaxWorkers and with at most TwoMaxTasks tasks.
InitTwo ==
    /\ InitCommon
    /\ num \in [PoolIds -> 0 .. TwoMaxWorkers]
    /\ cpc = [p \in PoolIds |-> "idle"]

NextTwo ==
    \E p \in PoolIds :
        \/ \E i \in WorkerIds : worker_do(p, i)
        \/ pgmoneta_workers_initialize(p)
        \/ pgmoneta_workers_add(p, TwoMaxTasks)
        \/ pgmoneta_workers_wait(p)
        \/ pgmoneta_workers_destroy(p)

SpecTwo == InitTwo /\ [][NextTwo]_vars

\* Scheduling: a thread that can take its next step is eventually scheduled.
\* A worker runs worker_do to its end (a task body it calls returns); the
\* controlling thread finishes a call it has begun.  Which call it begins
\* next, and whether it begins one, is left open.
WorkerFairness == \A i \in WorkerIds : WF_vars(worker_do(1, i))

CallFairness ==
    /\ WF_vars(QueuePush(1) \/ PushPost(1) \/ PushUnlock(1))
    /\ WF_vars(WaitWake(1) \/ WaitUnlock(1))
    /\ WF_vars(DestroyPost(1) \/ DestroyLoopExit(1) \/ DestroyFree(1))

\* One pool under fair scheduling; destroy may be called at any moment after
\* initialize returned, or never.
SpecFair == Init /\ [][Next]_vars /\ WorkerFairness /\ CallFairness

----
\* Claims.

Submitted(p) == 1 .. nadded[p]
Executing(p) == {i \in WorkerIds : wpc[p][i] \in {"call", "running"}}
WaitReturned(p) == cpc[p] = "wait_unlock" \/ drained[p]
DestroyCalled(p) == cpc[p] \in {"destroy_loop", "destroy_free", "destroyed"}

\* C1: one pool, one controlling thread, no destroy in between: in the state
\* where pgmoneta_workers_wait returns, every submitted task has had its
\* function invoked exactly once; none is still queued, held by a worker or
\* running, and no task that was not submitted was invoked.
C1_WaitAllInvokedOnce ==
    (WaitReturned(1) /\ ~DestroyCalled(1))
        => /\ \A t \in TaskIds : invoked[1][t] = (IF t \in Submitted(1) THEN 1 ELSE 0)
           /\ number_of_tasks[1] = 0
           /\ \A i \in WorkerIds : wt[1][i] = NULL
           /\ Executing(1) = {}

C1_Witness ==
    /\ cpc[1] = "wait_unlock"
    /\ nadded[1] = MaxTasks
    /\ num[1] = MaxWorkers
    /\ \A t \in Submitted(1) : invoked[1][t] = 1

\* C3: the tasks returned by queue_pull, in the order the pulls take rwmutex,
\* are the tasks in the order they were pushed (1, 2, 3, ...); with a single
\* worker a task's function is never called before that of an earlier task.
C3_Fifo ==
    /\ \A k \in 1 .. Len(pulled[1]) : pulled[1][k] = k
    /\ num[1] = 1 =>
          \A a, b \in TaskIds : (a < b /\ invoked[1][b] > 0) => invoked[1][a] > 0

C3_Witness ==
    /\ num[1] = MaxWorkers
    /\ Len(pulled[1]) = MaxTasks
    /\ \E i, j \in WorkerIds : i # j /\ wt[1][i] # NULL /\ wt[1][j] # NULL

\* C4: destroy does not get past its loops (does not release the queue and
\* the worker records, does not return) while a worker is alive: from the
\* release on number_of_alive is 0 and every worker is past its final
\* decrement, so no task function is invoked or running.
C4_DestroyWaitsForWorkers ==
    cpc[1] \in {"destroy_free", "destroyed"}
        => /\ number_of_alive[1] = 0
           /\ Executing(1) = {}
           /\ \A i \in WorkerIds : wpc[1][i] \in {"none", "exit_unlock", "done"}

\* destroy is blocked on an in-flight task while another worker has left
C4_Witness ==
    /\ cpc[1] = "destroy_loop"
    /\ worker_keepalive = 0
    /\ Executing(1) # {}
    /\ number_of_alive[1] < num[1]

\* C7: initialize with num < 1 returns failure, leaves the output pool
\* reference NULL and creates no worker thread.
C7_InvalidSizeFails ==
    num[1] < 1
        => /\ outp[1] = FALSE
           /\ ret[1] \in {-1, 1}
           /\ cpc[1] \in {"idle", "init_check", "failed"}
           /\ \A i \in WorkerIds : wpc[1][i] = "none"
           /\ cpc[1] = "failed" => ret[1] = 1

C7_Witness ==
    /\ num[1] = -1
    /\ cpc[1] = "failed"
    /\ ret[1] = 1

\* C8 as stated: after pgmoneta_workers_wait returned and until the next add,
\* number_of_tasks and number_of_working are both 0.
C8_DrainStable ==
    WaitReturned(1) => (number_of_tasks[1] = 0 /\ number_of_working[1] = 0)

PoolExists(p) == cpc[p] \notin {"absent", "idle", "init_check", "failed"}

\* C10: from initialize to the end of destroy,
\* 0 <= number_of_working <= number_of_alive <= num.
C10_CounterInvariant ==
    \A p \in PoolIds : PoolExists(p) =>
        /\ 0 <= number_of_working[p]
        /\ number_of_working[p] <= number_of_alive[p]
        /\ number_of_alive[p] <= num[p]

C10_Witness ==
    /\ num[1] = MaxWorkers
    /\ number_of_working[1] = MaxWorkers
    /\ number_of_alive[1] = MaxWorkers

\* C2: as long as destroy is not called and the threads are scheduled fairly,
\* every submitted task is eventually pulled and its function called once,
\* also when there are fewer workers than tasks: no task stays queued behind
\* an unarmed gate.  (From every state on, destroy is called or a state is
\* reached in which every task submitted so far has been executed.)
C2_AllEventuallyExecuted ==
    []<>(DestroyCalled(1) \/ \A t \in Submitted(1) : invoked[1][t] = 1)

C2_Witness ==
    /\ ~DestroyCalled(1)
    /\ num[1] >= 1
    /\ num[1] < nadded[1]
    /\ nadded[1] = MaxTasks
    /\ \A t \in Submitted(1) : invoked[1][t] = 1
    /\ \A i \in WorkerIds : i <= num[1] => wpc[1][i] = "sem_cond"

\* C5: one pool, no concurrent initialize, fair scheduling, task bodies that
\* return: once destroy has begun it returns, wherever the workers are and
\* whether or not tasks are still queued.
C5_DestroyReturns == (cpc[1] = "destroy_loop") ~> (cpc[1] = "destroyed")

C5_Witness ==
    /\ cpc[1] = "destroyed"
    /\ num[1] = MaxWorkers
    /\ nadded[1] > Len(pulled[1])
    /\ \A i \in WorkerIds : wpc[1][i] = "done"

\* C6 as stated: when initialize returns success (number_of_alive == num
\* was read and the call is returning), number_of_alive == num.
C6_InitReturnsAllAlive ==
    \A p \in PoolIds : cpc[p] = "init_ret" => number_of_alive[p] = num[p]

\* C8, amended: when pgmoneta_workers_wait returns both counters are 0; until
\* the next add the queue stays empty and no worker holds or runs a task.
C8_DrainStableQueue ==
    /\ cpc[1] = "wait_unlock" => (number_of_tasks[1] = 0 /\ number_of_working[1] = 0)
    /\ WaitReturned(1) =>
          /\ number_of_tasks[1] = 0
          /\ Executing(1) = {}
          /\ \A i \in WorkerIds : wt[1][i] = NULL

\* after a drain a worker that was past the gate counts itself as working
C8_Witness ==
    /\ drained[1]
    /\ cpc[1] = "ready"
    /\ number_of_working[1] = 1
    /\ number_of_tasks[1] = 0

Running(p) ==
    cpc[p] \in {"ready", "push", "push_post", "push_unlock", "wait_cond", "wait_unlock"}

\* C9 as stated: while a pool is in use (initialize has returned, its own
\* destroy has not begun) none of its workers leaves the loop of worker_do,
\* whatever is done to another pool.
C9_PoolsIndependent ==
    \A p \in PoolIds : Running(p) =>
        \A i \in WorkerIds : wpc[p][i] \notin {"exit_dec", "exit_unlock", "done"}

\* The tasks linked from `from` by task->previous, at most `fuel` of them.
RECURSIVE Chain(_, _, _)
Chain(p, from, fuel) ==
    IF from = NULL \/ fuel = 0 THEN <<>>
    ELSE <<from>> \o Chain(p, previous[p][from], fuel - 1)

Linked(p) == Chain(p, front[p], MaxTasks + 2)

QueueWellFormed(p) ==
    /\ number_of_tasks[p] = 0 <=> (front[p] = NULL /\ rear[p] = NULL)
    /\ Len(Linked(p)) = number_of_tasks[p]
    /\ number_of_tasks[p] > 0 => Linked(p)[number_of_tasks[p]] = rear[p]

\* a queue_pull of worker i that finds the queue empty
EmptyPull(p, i) ==
    /\ wpc[p][i] = "pull"
    /\ wpc'[p][i] # "pull"
    /\ number_of_tasks[p] = 0

\* C11: whenever rwmutex is not held, number_of_tasks is 0 exactly when
\* front and rear are NULL, it is the number of tasks linked from front, and
\* rear is the last of them; a queue_pull on an empty queue returns NULL,
\* leaves the queue as it is and does not post the gate.
C11_QueueStructure ==
    /\ [](\A p \in PoolIds : rwmutex[p] = NoOwner => QueueWellFormed(p))
    /\ [][\A i \in WorkerIds : EmptyPull(1, i) =>
            /\ wt'[1][i] = NULL
            /\ wpc'[1][i] = "pull_unlock"
            /\ UNCHANGED <<number_of_tasks, front, rear, previous, pulled, value,
                           cond_waiters>>]_vars

C11_Witness ==
    \E i \in WorkerIds :
        /\ wpc[1][i] = "pull_unlock"
        /\ wt[1][i] = NULL
        /\ Len(pulled[1]) = MaxTasks
        /\ QueueWellFormed(1)

\* workers that have taken the gate in semaphore_wait (value set to 0) and
\* have not yet made the queue_pull that follows
PastGate(p) ==
    {i \in WorkerIds :
        wpc[p][i] \in {"sem_unlock", "recheck", "work_inc", "work_inc_unlock", "pull"}}

\* a thread inside queue_push or queue_pull that has changed the queue under
\* rwmutex and has not yet made its semaphore_post
PostPending(p) ==
    \/ cpc[p] = "push_post"
    \/ \E i \in WorkerIds : wpc[p][i] = "pull_post"

\* C12 as stated: in every state before shutdown, number_of_tasks > 0 implies
\* that the gate value is 1 or that some worker has returned from
\* semaphore_wait and not yet pulled.
C12_RearmOnPull ==
    (Running(1) /\ number_of_tasks[1] > 0) =>
        (value[1] = 1 \/ PastGate(1) # {})

\* C12, amended: the same in every state before shutdown in which no thread
\* is between its change of the queue and its semaphore_post; in particular
\* whenever rwmutex is not held.
C12_RearmOnPullOutsideQueueSection ==
    (Running(1) /\ number_of_tasks[1] > 0 /\ ~PostPending(1)) =>
        (value[1] = 1 \/ PastGate(1) # {})

\* a pull that left a task behind has posted the gate again
C12_Witness ==
    /\ Running(1)
    /\ rwmutex[1] = NoOwner
    /\ number_of_tasks[1] > 0
    /\ Len(pulled[1]) > 0
    /\ value[1] = 1
    /\ PastGate(1) = {}

\* worker i returns from the loop of semaphore_wait in this step
WaitReturns(p, i) == wpc[p][i] # "sem_unlock" /\ wpc'[p][i] = "sem_unlock"

\* C13: the gate value is always 0 or 1; semaphore_wait returns only from a
\* state where the value is 1 and sets it to 0 in the same step, the value is
\* 1 only while no semaphore_wait has returned since the last post, and at
\* most one semaphore_wait returns between two consecutive post or post_all
\* calls (so the returned waits never outnumber the calls).
C13_BinaryGate ==
    /\ [](\A p \in PoolIds :
            /\ value[p] \in {0, 1}
            /\ passes[p] <= 1
            /\ value[p] = 1 => passes[p] = 0)
    /\ [][\A i \in WorkerIds :
            WaitReturns(1, i) => (value[1] = 1 /\ value'[1] = 0)]_vars

C13_Witness ==
    /\ passes[1] = 1
    /\ value[1] = 0
    /\ nadded[1] = 1
    /\ \E i \in WorkerIds : wpc[1][i] = "recheck"
    /\ \E i \in WorkerIds : wpc[1][i] = "sem_cond" /\ i \in cond_waiters[1]

\* workers that were inside semaphore_wait at the last post_all and, with no
\* post since, are blocked on the condition of the gate
BlockedAgain(p) == released[p] \cap cond_waiters[p]

\* C14 as stated: one semaphore_post_all lets every worker that is blocked in
\* semaphore_wait at that moment return from it with no further post or
\* post_all; none of them is left blocked on the condition.
C14_OnePostAllSuffices == \A p \in PoolIds : BlockedAgain(p) = {}

\* C14, amended: a semaphore_post_all wakes every worker blocked at that
\* moment, and a worker among them that blocks again with no post in between
\* does so on a value of 0, the one armed unit having been taken: it returns
\* from semaphore_wait only after a further post or post_all.
C14_PostAllArmsOneUnit ==
    \A p \in PoolIds : \A i \in BlockedAgain(p) : value[p] = 0 /\ passes[p] = 1

C14_Witness ==
    /\ cpc[1] = "destroy_loop"
    /\ passes[1] = 1
    /\ BlockedAgain(1) # {}

\* worker i calls pthread_cond_signal(&worker_all_idle) in this step
SignalsIdle(p, i) == wpc[p][i] = "work_dec" /\ wpc'[p][i] = "signalled_unlock"

\* C15 as stated: worker_all_idle is signalled only in a state where
\* queue.number_of_tasks and number_of_working are both 0.
C15_SignalOnlyWhenDrained ==
    [][\A i \in WorkerIds : SignalsIdle(1, i) =>
            (number_of_tasks'[1] = 0 /\ number_of_working'[1] = 0)]_vars

\* C15, amended: worker_all_idle is signalled only in a state where
\* number_of_working is 0; number_of_tasks may be positive there.
C15_SignalOnlyWhenNoneWorking ==
    [][\A i \in WorkerIds : SignalsIdle(1, i) => number_of_working'[1] = 0]_vars

\* the signal has just been raised over a queue that still holds a task
C15_Witness ==
    \E i \in WorkerIds :
        /\ wpc[1][i] = "signalled_unlock"
        /\ invoked[1][1] = 1
        /\ number_of_working[1] = 0
        /\ number_of_tasks[1] > 0

\* workers between the test of line 324, passed, and their queue_pull
Committed(p) ==
    {i \in WorkerIds : wpc[p][i] \in {"work_inc", "work_inc_unlock", "pull"}}

\* C16 as stated: once pgmoneta_workers_destroy has cleared the flag no worker
\* removes a task from the queue any more.
C16_NoPullAfterShutdown ==
    [][(DestroyCalled(1) /\ worker_keepalive = 0) => pulled'[1] = pulled[1]]_vars

\* C16, amended: once the flag is cleared no worker passes the test of line
\* 324 any more, so a worker that wakes from the gate during shutdown leaves
\* without a queue_pull; a task is removed then only by a worker that had
\* passed that test before.
C16_OnlyCommittedPull ==
    [][(DestroyCalled(1) /\ worker_keepalive = 0) =>
            /\ \A i \in WorkerIds :
                   wpc'[1][i] \in {"work_inc", "work_inc_unlock", "pull"} => i \in Committed(1)
            /\ pulled'[1] # pulled[1] =>
                   \E i \in Committed(1) : wpc[1][i] = "pull" /\ wpc'[1][i] # "pull"]_vars

\* during shutdown a worker that passed the test before is about to pull
C16_Witness ==
    /\ cpc[1] = "destroy_loop"
    /\ worker_keepalive = 0
    /\ number_of_tasks[1] > 0
    /\ \E i \in WorkerIds : wpc[1][i] = "pull"

\* the mutexes of pool p that thread x owns
Held(p, x) ==
    {m \in {"worker_lock", "rwmutex", "sem_mutex"} :
        \/ m = "worker_lock" /\ worker_lock[p] = x
        \/ m = "rwmutex" /\ rwmutex[p] = x
        \/ m = "sem_mutex" /\ sem_mutex[p] = x}

\* C17: a worker that is executing a task function holds none of
\* worker_lock, rwmutex and the gate mutex.
C17_TaskRunsUnlocked ==
    \A p \in PoolIds : \A i \in Executing(p) : Held(p, i) = {}

\* every worker of a full pool is inside a task function while
\* pgmoneta_workers_add has pushed a further task and is about to return
C17_Witness ==
    /\ num[1] = MaxWorkers
    /\ \A i \in WorkerIds : wpc[1][i] = "running"
    /\ cpc[1] = "push_unlock"
    /\ number_of_tasks[1] = 1

\* C18 as stated: once pgmoneta_workers_destroy has destroyed the gate and
\* freed the worker records and the pool, every worker has finished the
\* unlock of worker_lock that follows its final decrement of number_of_alive,
\* and none touches the pool afterwards.
C18_NoUseAfterRelease ==
    \A p \in PoolIds :
        /\ freed[p] => \A i \in WorkerIds : wpc[p][i] \in {"none", "done"}
        /\ ~uaf[p]

Threads == WorkerIds \cup {Ctl}

Owner(p, m) ==
    IF m = "worker_lock" THEN worker_lock[p]
    ELSE IF m = "rwmutex" THEN rwmutex[p]
    ELSE sem_mutex[p]

\* the mutex whose pthread_mutex_lock (or re-acquisition in
\* pthread_cond_wait) is the next step of thread x
Wanted(p, x) ==
    IF x = Ctl
    THEN IF cpc[p] = "push" THEN {"rwmutex"}
         ELSE IF cpc[p] \in {"push_post", "destroy_loop"} THEN {"sem_mutex"}
         ELSE IF cpc[p] = "wait_cond" /\ Ctl \notin idle_waiters[p] THEN {"worker_lock"}
         ELSE {}
    ELSE IF wpc[p][x] \in {"start", "work_inc", "work_dec", "exit_dec"} THEN {"worker_lock"}
         ELSE IF wpc[p][x] = "pull" THEN {"rwmutex"}
         ELSE IF wpc[p][x] \in {"sem_wait", "pull_post"} THEN {"sem_mutex"}
         ELSE IF wpc[p][x] = "sem_cond" /\ x \notin cond_waiters[p] THEN {"sem_mutex"}
         ELSE {}

\* x waits for a mutex that y holds
WaitsFor(p, x, y) == \E m \in Wanted(p, x) : Owner(p, m) = y

\* the threads reached from the set S along WaitsFor in at most n steps
RECURSIVE WaitChain(_, _, _)
WaitChain(p, S, n) ==
    IF n = 0 THEN S
    ELSE WaitChain(p, S \cup {y \in Threads : \E x \in S : WaitsFor(p, x, y)}, n - 1)

Blockers(p, x) ==
    WaitChain(p, {y \in Threads : WaitsFor(p, x, y)}, MaxWorkers + 1)

\* C19: the mutexes are acquired in one order (the gate mutex alone or inside
\* rwmutex, rwmutex with nothing held, worker_lock never held while either of
\* the other two is acquired), a thread blocked on a condition holds none,
\* and no thread waits, directly or through others, for a mutex it holds.
C19_DeadlockFree ==
    \A p \in PoolIds : \A x \in Threads :
        /\ "sem_mutex" \in Wanted(p, x) => Held(p, x) \subseteq {"rwmutex"}
        /\ "rwmutex" \in Wanted(p, x) => Held(p, x) = {}
        /\ "worker_lock" \in Wanted(p, x) => Held(p, x) = {}
        /\ x \in cond_waiters[p] \cup idle_waiters[p] => Held(p, x) = {}
        /\ x \notin Blockers(p, x)

\* a worker waits for rwmutex, held by queue_push, which waits for the gate
\* mutex, held by another worker
C19_Witness ==
    \E i, j \in WorkerIds :
        /\ i # j
        /\ WaitsFor(1, i, Ctl)
        /\ WaitsFor(1, Ctl, j)
        /\ Blockers(1, i) = {Ctl, j}

----
\* Two threads in pgmoneta_workers_wait on one pool: the controlling thread
\* and a second thread, which calls it once while the pool is in use.

\* lines 159-164 under worker_lock, for the second thread
SecondWaitTest(p) ==
    /\ worker_lock[p] = NoOwner
    /\ IF WaitCondition(number_of_tasks[p], number_of_working[p])
       THEN /\ idle_waiters' = Set(idle_waiters, p, idle_waiters[p] \cup {Aux})
            /\ worker_lock' = worker_lock
            /\ auxpc' = Set(auxpc, p, "wait_cond")
       ELSE /\ idle_waiters' = idle_waiters
            /\ worker_lock' = Set(worker_lock, p, Aux)
            /\ auxpc' = Set(auxpc, p, "wait_unlock")
    /\ UNCHANGED <<worker_keepalive, num, cpc, outp, ret, spawn_n, worker_total,
                   nadded, drained, freed, cntVars, queueVars, semVars, rwmutex,
                   sem_mutex, workerVars>>

\* lines 155-159
SecondWait(p) ==
    /\ auxpc[p] = "idle"
    /\ Running(p)
    /\ SecondWaitTest(p)

\* line 161
SecondWaitWake(p) ==
    /\ auxpc[p] = "wait_cond"
    /\ Aux \notin idle_waiters[p]
    /\ SecondWaitTest(p)

\* lines 164-166
SecondWaitUnlock(p) ==
    /\ auxpc[p] = "wait_unlock"
    /\ worker_lock' = Set(worker_lock, p, NoOwner)
    /\ auxpc' = Set(auxpc, p, "returned")
    /\ UNCHANGED <<worker_keepalive, num, cpc, outp, ret, spawn_n, worker_total,
                   nadded, drained, freed, cntVars, queueVars, semVars, idle_waiters,
                   rwmutex, sem_mutex, workerVars>>

second_workers_wait(p) ==
    \/ SecondWait(p)
    \/ SecondWaitWake(p)
    \/ SecondWaitUnlock(p)

NextWaiters ==
    \/ Next
    \/ second_workers_wait(1)

\* One pool, two waiting threads, fair scheduling: as SpecFair, and the
\* second thread finishes the call it has begun when it can.
SpecWaiters ==
    /\ Init /\ [][NextWaiters]_vars
    /\ WorkerFairness
    /\ CallFairness
    /\ WF_vars(SecondWaitWake(1) \/ SecondWaitUnlock(1))

\* both threads are inside pthread_cond_wait of pgmoneta_workers_wait
BothWaiting(p) == cpc[p] = "wait_cond" /\ auxpc[p] = "wait_cond"

Idle(p) == number_of_tasks[p] = 0 /\ number_of_working[p] = 0

\* C20 as stated: when two threads are blocked in pgmoneta_workers_wait on a
\* pool, once the queue is empty and no worker is working each of them
\* eventually returns.
C20_AllWaitersReturn ==
    /\ (BothWaiting(1) /\ Idle(1)) ~> (cpc[1] # "wait_cond")
    /\ (BothWaiting(1) /\ Idle(1)) ~> (auxpc[1] # "wait_cond")

====
